---- MODULE Spec2Model ----
(***************************************************************************)
(* Model of stack.go of hearSmart/go-errors: stack capture (callers), the  *)
(* Stack -> StackTrace projection, function-name normalisation (funcname), *)
(* Frame / StackTrace formatting and the ancestor matcher                  *)
(* (ancestorOfCause).                                                      *)
(*                                                                         *)
(* Strings are sequences of one-character strings, so that indexing,       *)
(* slicing and concatenation are computed as the Go code computes them.    *)
(* Go slices are 0-based; At(s, i) reads Go's s[i].                        *)
(***************************************************************************)
EXTENDS Integers, Sequences, FiniteSets, TLC

VARIABLES
    pc,          \* "ready" before the operation under check ran, "done" after
    ourStack,    \* ancestorOfCause: *ourStack, innermost first
    causeStack,  \* ancestorOfCause: causeStack, innermost first
    matched,     \* ancestorOfCause: returned bool ("none" before the call)
    compares,    \* ancestorOfCause: number of executions of the comparison at line 225
    chain,       \* callers: the goroutine's live call chain, innermost first;
                 \*          its first entry is the frame of runtime.Callers itself
    skip,        \* callers: the skip argument
    captured,    \* callers: the returned stack
    s,           \* stack.StackTrace: the receiver *s
    trace,       \* stack.StackTrace: the returned StackTrace
    calls,       \* stack.StackTrace: number of calls made so far
    name,        \* funcname: the argument
    fname,       \* funcname: the returned string
    st,          \* formatting: the StackTrace being formatted
    stNil,       \* formatting: whether st is the nil slice (only a slice of
                 \*             length 0 can be)
    call,        \* formatting: the last formatting call and its arguments
    out,         \* formatting: the bytes written to fmt.State / returned
    err          \* formatting: the error returned by MarshalText

ancestorVars == <<ourStack, causeStack, matched, compares>>
callersVars == <<chain, skip, captured>>
traceVars == <<s, trace, calls>>
nameVars == <<name, fname>>
formatVars == <<st, stNil, call, out, err>>

vars == <<pc, ancestorVars, callersVars, traceVars, nameVars, formatVars>>

\* ---------------------------------------------------------------- bounds
MaxAddr == 3      \* addresses are drawn from 1..MaxAddr
MaxStack == 3     \* longest stack handed to the matcher and to StackTrace()
MaxChain == 37    \* deepest live call chain at the time of capture
MaxStride == 2    \* call chains differ in the spacing of their addresses
MaxSkip == 3      \* largest skip argument of callers
MaxCalls == 2     \* number of repeated StackTrace() calls on one stack
MaxName == 5      \* longest function name handed to funcname
MaxFrame == 4     \* Frames are drawn from 1..MaxFrame
MaxTrace == 3     \* longest StackTrace formatted

Addrs == 1..MaxAddr

SeqsUpTo(S, n) == UNION {[1..k -> S] : k \in 0..n}

\* Go's s[i] for a 0-based index i.
At(seq, i) == seq[i + 1]

\* Go's s[i:] for a 0-based index i.
SliceFrom(seq, i) == SubSeq(seq, i + 1, Len(seq))

\* The values the variables of the operations not under check hold.
IdleAncestor == ourStack = <<>> /\ causeStack = <<>> /\ matched = "none" /\ compares = 0
IdleCallers == chain = <<>> /\ skip = 0 /\ captured = <<>>
IdleTrace == s = <<>> /\ trace = <<>> /\ calls = 0
IdleName == name = <<>> /\ fname = <<>>
IdleFormat == st = <<>> /\ stNil = TRUE /\ call = [op |-> "none"] /\ out = <<>> /\ err = "none"

\* ------------------------------------------------------- ancestorOfCause
\* The loop of lines 224-228, entered at idx with n comparisons already
\* made.  Every iteration reads the LAST element of both slices.
RECURSIVE ancestorLoop(_, _, _, _)
ancestorLoop(our, cause, idx, n) ==
    IF idx < Len(our)
    THEN IF At(our, Len(our) - 1) # At(cause, Len(cause) - 1)
         THEN [ret |-> FALSE, compares |-> n + 1]
         ELSE ancestorLoop(our, cause, idx + 1, n + 1)
    ELSE [ret |-> TRUE, compares |-> n]

\* Mutant: the length guard of line 219 returns the wrong constant.
ancestorRunGuardTrue(our, cause) ==
    IF Len(our) > Len(cause)
    THEN [ret |-> TRUE, compares |-> 0]
    ELSE ancestorLoop(our, cause, 0, 0)

\* Mutant: the length guard of line 219 written with >= instead of >.
ancestorRunGuardGeq(our, cause) ==
    IF Len(our) >= Len(cause)
    THEN [ret |-> FALSE, compares |-> 0]
    ELSE ancestorLoop(our, cause, 0, 0)

\* Mutant: the loop walks the tail positions pairwise (index len-1-idx).
RECURSIVE ancestorLoopPairwise(_, _, _, _)
ancestorLoopPairwise(our, cause, idx, n) ==
    IF idx < Len(our)
    THEN IF At(our, Len(our) - 1 - idx) # At(cause, Len(cause) - 1 - idx)
         THEN [ret |-> FALSE, compares |-> n + 1]
         ELSE ancestorLoopPairwise(our, cause, idx + 1, n + 1)
    ELSE [ret |-> TRUE, compares |-> n]

ancestorRunPairwise(our, cause) ==
    IF Len(our) > Len(cause)
    THEN [ret |-> FALSE, compares |-> 0]
    ELSE ancestorLoopPairwise(our, cause, 0, 0)

ancestorRun(our, cause) ==
    IF Len(our) > Len(cause)
    THEN [ret |-> FALSE, compares |-> 0]
    ELSE ancestorLoop(our, cause, 0, 0)

ancestorOfCause(our, cause) == ancestorRun(our, cause).ret

ancestorCompares(our, cause) == ancestorRun(our, cause).compares

InitAncestor ==
    /\ pc = "ready"
    /\ ourStack \in SeqsUpTo(Addrs, MaxStack)
    /\ causeStack \in SeqsUpTo(Addrs, MaxStack)
    /\ matched = "none"
    /\ compares = 0
    /\ IdleCallers /\ IdleTrace /\ IdleName /\ IdleFormat

CallAncestorOfCause ==
    /\ pc = "ready"
    /\ matched' = ancestorOfCause(ourStack, causeStack)
    /\ compares' = ancestorCompares(ourStack, causeStack)
    /\ pc' = "done"
    /\ UNCHANGED <<ourStack, causeStack>>
    /\ UNCHANGED <<callersVars, traceVars, nameVars, formatVars>>

NextAncestor == CallAncestorOfCause

SpecAncestor == InitAncestor /\ [][NextAncestor]_vars

\* ------------------------------------------------ claims: ancestorOfCause
\* Tail-aligned positional match of the two sequences: position k counted
\* from the end of each, for every k in 1..Len(our).
TailAligned(our, cause) ==
    /\ Len(our) <= Len(cause)
    /\ \A k \in 1..Len(our) : At(our, Len(our) - k) = At(cause, Len(cause) - k)

\* C1: ancestorOfCause returns true exactly when the candidate is no longer
\* than the cause and every tail-aligned pair of addresses is equal.
C1_TailAlignedMatch ==
    pc = "done" => (matched = TailAligned(ourStack, causeStack))

\* C2: a candidate longer than the cause is never an ancestor, whatever the
\* addresses are.
C2_LongerIsFalse ==
    (pc = "done" /\ Len(ourStack) > Len(causeStack)) => matched = FALSE

C2_Witness ==
    /\ pc = "done"
    /\ Len(ourStack) > Len(causeStack)
    /\ causeStack # <<>>
    /\ At(ourStack, Len(ourStack) - 1) = At(causeStack, Len(causeStack) - 1)
    /\ matched = FALSE

\* C3: the empty candidate matches every cause, the empty one included,
\* without a single comparison.
C3_EmptyCandidateTrue ==
    (pc = "done" /\ ourStack = <<>>) => (matched = TRUE /\ compares = 0)

C3_Witness ==
    pc = "done" /\ ourStack = <<>> /\ causeStack = <<>> /\ matched = TRUE

\* C10: for a non-empty candidate no longer than the cause, the result is
\* the equality of the two last elements and nothing else.
C10_OnlyLastPair ==
    (pc = "done" /\ ourStack # <<>> /\ Len(ourStack) <= Len(causeStack))
        => (matched = (At(ourStack, Len(ourStack) - 1)
                         = At(causeStack, Len(causeStack) - 1)))

C10_Witness ==
    /\ pc = "done"
    /\ Len(ourStack) = 2
    /\ Len(causeStack) = 3
    /\ At(ourStack, 0) # At(causeStack, 1)
    /\ At(ourStack, 1) = At(causeStack, 2)
    /\ matched = TRUE

\* ---------------------------------------------------------------- callers
depth == 32       \* const depth, the size of the pcs buffer
baseSkip == 3     \* the 3 of runtime.Callers(skip+3, ...)

\* A live call chain of d frames: the outermost frame has address 1 and
\* every deeper frame an address v higher, so all addresses are distinct
\* and their order is visible.
ChainOf(d, v) == [i \in 1..d |-> 1 + v * (d - i)]

\* runtime.Callers(skip, pc): skips `skip` frames of the chain (0 names the
\* frame of Callers itself), writes the following ones into pc until pc is
\* full or the chain ends, and returns pc and the number of entries written.
RECURSIVE runtimeCallers(_, _, _, _)
runtimeCallers(ch, sk, pcs, n) ==
    IF n < Len(pcs) /\ sk + n < Len(ch)
    THEN runtimeCallers(ch, sk, [pcs EXCEPT ![n + 1] = At(ch, sk + n)], n + 1)
    ELSE [pcs |-> pcs, n |-> n]

\* Mutant: the baseline skip is one too small.
callersSkipTwo(ch, sk) ==
    LET pcs == [i \in 1..depth |-> 0]
        r == runtimeCallers(ch, sk + 2, pcs, 0)
    IN  SubSeq(r.pcs, 1, r.n)

\* callers(skip) run on the live call chain ch.
callers(ch, sk) ==
    LET pcs == [i \in 1..depth |-> 0]
        r == runtimeCallers(ch, sk + baseSkip, pcs, 0)
    IN  SubSeq(r.pcs, 1, r.n)

\* callers is running, so the chain holds at least runtime.Callers and callers.
InitCallers ==
    /\ pc = "ready"
    /\ \E d \in 2..MaxChain, v \in 1..MaxStride : chain = ChainOf(d, v)
    /\ skip \in 0..MaxSkip
    /\ captured = <<>>
    /\ IdleAncestor /\ IdleTrace /\ IdleName /\ IdleFormat

CallCallers ==
    /\ pc = "ready"
    /\ captured' = callers(chain, skip)
    /\ pc' = "done"
    /\ UNCHANGED <<chain, skip>>
    /\ UNCHANGED <<ancestorVars, traceVars, nameVars, formatVars>>

NextCallers == CallCallers

SpecCallers == InitCallers /\ [][NextCallers]_vars

Min(a, b) == IF a < b THEN a ELSE b
Max(a, b) == IF a > b THEN a ELSE b

\* C4: callers(extraSkip) returns the chain without its first 3 + extraSkip
\* frames, cut to the innermost 32 of what remains, in unchanged order.
C4_CallersWindow ==
    pc = "done" =>
        /\ Len(captured) = Min(32, Max(0, Len(chain) - 3 - skip))
        /\ Len(captured) <= 32
        /\ \A i \in 1..Len(captured) : captured[i] = chain[3 + skip + i]

C4_Witness ==
    /\ pc = "done"
    /\ skip > 0
    /\ Len(chain) - 3 - skip > 32
    /\ Len(captured) = 32
    /\ captured[32] = chain[35 + skip]

\* ------------------------------------------------------- stack.StackTrace
\* The conversion Frame(pc) of line 158: both types are uintptr, the value
\* is kept.
Frame(u) == u

\* The loop of lines 157-159 from index i on, over f = make([]Frame, len(*s)).
RECURSIVE stackTraceLoop(_, _, _)
stackTraceLoop(stk, f, i) ==
    IF i < Len(f)
    THEN stackTraceLoop(stk, [f EXCEPT ![i + 1] = Frame(At(stk, i))], i + 1)
    ELSE f

\* Mutant: the loop stops one element early.
RECURSIVE stackTraceLoopShort(_, _, _)
stackTraceLoopShort(stk, f, i) ==
    IF i < Len(f) - 1
    THEN stackTraceLoopShort(stk, [f EXCEPT ![i + 1] = Frame(At(stk, i))], i + 1)
    ELSE f

stack_StackTraceShort(stk) ==
    [recv |-> stk, ret |-> stackTraceLoopShort(stk, [i \in 1..Len(stk) |-> 0], 0)]

\* (*stack).StackTrace: the receiver after the call and the returned trace.
stack_StackTrace(stk) ==
    [recv |-> stk, ret |-> stackTraceLoop(stk, [i \in 1..Len(stk) |-> 0], 0)]

InitTrace ==
    /\ pc = "ready"
    /\ s \in SeqsUpTo(Addrs, MaxStack)
    /\ trace = <<>>
    /\ calls = 0
    /\ IdleAncestor /\ IdleCallers /\ IdleName /\ IdleFormat

CallStackTrace ==
    /\ calls < MaxCalls
    /\ s' = stack_StackTrace(s).recv
    /\ trace' = stack_StackTrace(s).ret
    /\ calls' = calls + 1
    /\ pc' = "done"
    /\ UNCHANGED <<ancestorVars, callersVars, nameVars, formatVars>>

NextTrace == CallStackTrace

SpecTrace == InitTrace /\ [][NextTrace]_vars

\* C5: every call of s.StackTrace() returns one Frame per address of s, the
\* i-th wrapping the i-th address, leaves s as it was, and so returns what
\* the call before it returned.
C5_Projection ==
    [][calls' # calls =>
        /\ s' = s
        /\ Len(trace') = Len(s)
        /\ \A i \in 1..Len(s) : trace'[i] = s[i]
        /\ (calls > 0 => trace' = trace)]_vars

C5_Witness ==
    /\ calls = 2
    /\ Len(s) = 3
    /\ Len(trace) = 3
    /\ trace[1] # trace[3]
    /\ trace[3] = s[3]

\* --------------------------------------------------------------- funcname
NameChars == {"/", ".", "a"}

\* strings.LastIndex(str, ch) for a one-byte ch: the 0-based index of the
\* last occurrence, -1 when there is none.
RECURSIVE lastIndexFrom(_, _, _)
lastIndexFrom(str, ch, i) ==
    IF i < 0 THEN -1
    ELSE IF At(str, i) = ch THEN i
    ELSE lastIndexFrom(str, ch, i - 1)

LastIndex(str, ch) == lastIndexFrom(str, ch, Len(str) - 1)

\* strings.Index(str, ch) for a one-byte ch: the 0-based index of the first
\* occurrence, -1 when there is none.
RECURSIVE indexFrom(_, _, _)
indexFrom(str, ch, i) ==
    IF i >= Len(str) THEN -1
    ELSE IF At(str, i) = ch THEN i
    ELSE indexFrom(str, ch, i + 1)

Index(str, ch) == indexFrom(str, ch, 0)

\* Mutant: the '.' is searched in the whole name, before the path strip.
funcnameDotFirst(nm) ==
    LET j == Index(nm, ".")
        n1 == SliceFrom(nm, j + 1)
        i == LastIndex(n1, "/")
    IN  SliceFrom(n1, i + 1)

funcname(nm) ==
    LET i == LastIndex(nm, "/")
        n1 == SliceFrom(nm, i + 1)
        j == Index(n1, ".")
    IN  SliceFrom(n1, j + 1)

InitName ==
    /\ pc = "ready"
    /\ name \in SeqsUpTo(NameChars, MaxName)
    /\ fname = <<>>
    /\ IdleAncestor /\ IdleCallers /\ IdleTrace /\ IdleFormat

CallFuncname ==
    /\ pc = "ready"
    /\ fname' = funcname(name)
    /\ pc' = "done"
    /\ UNCHANGED name
    /\ UNCHANGED <<ancestorVars, callersVars, traceVars, formatVars>>

NextName == CallFuncname

SpecName == InitName /\ [][NextName]_vars

Has(str, ch) == \E i \in 1..Len(str) : str[i] = ch

Prefixes(str) == {SubSeq(str, 1, i) : i \in 0..Len(str)}
Suffixes(str) == {SubSeq(str, i + 1, Len(str)) : i \in 0..Len(str)}

\* p is str with everything up to and including its last '/' removed.
PathStripped(str, p) ==
    /\ ~Has(p, "/")
    /\ \/ p = str
       \/ \E pre \in Prefixes(str) : str = pre \o <<"/">> \o p

\* r is p with everything up to and including its first '.' removed, and p
\* itself when p holds no '.'.
DotStripped(p, r) ==
    IF Has(p, ".")
    THEN \E q \in Prefixes(p) : ~Has(q, ".") /\ p = q \o <<".">> \o r
    ELSE r = p

\* C6: funcname(name) is name without everything up to and including the
\* last '/', and then without everything up to and including the first '.'
\* that remains; without such a '.' the path-stripped name is returned.
C6_Funcname ==
    pc = "done" =>
        \E p \in Suffixes(name) :
            PathStripped(name, p) /\ DotStripped(p, fname)

C6_Witness ==
    /\ pc = "done"
    /\ name = <<".", "/", "a", ".", "a">>
    /\ fname = <<"a">>

\* ------------------------------------------------------------- formatting
Unknown == <<"u", "n", "k", "n", "o", "w", "n">>

\* The symbol table of the running image, by program counter: name, file
\* and line of the function that encloses the pc.  A pc outside the table
\* belongs to no function (nil marks the nil *Func).
SymTab ==
    [p \in 0..2 |->
        CASE p = 0 -> [nil |-> FALSE, name |-> <<"a", "/", "p", ".", "T", ".", "M">>,
                       file |-> <<"/", "d", "/", "a", ".", "g", "o">>,
                       line |-> 1]
          [] p = 1 -> [nil |-> FALSE, name |-> <<"p", ".", "F">>,
                       file |-> <<"/", "d", "/", "b", ".", "g", "o">>,
                       line |-> 2]
          [] p = 2 -> [nil |-> FALSE, name |-> <<"m", "a", "i", "n">>,
                       file |-> <<"c", ".", "g", "o">>,
                       line |-> 105]]

\* Frames hold captured return addresses (pc + 1), so they are at least 1;
\* Frame MaxFrame and above lie outside the symbol table.
Frames == 1..MaxFrame

\* Frame.pc: the Frame's value is the program counter + 1.
Frame_pc(f) == f - 1

\* runtime.FuncForPC: the table entry, or the nil *Func.
FuncForPC(p) == IF p \in DOMAIN SymTab THEN SymTab[p] ELSE [nil |-> TRUE]

Frame_file(f) ==
    LET fn == FuncForPC(Frame_pc(f))
    IN  IF fn.nil THEN Unknown ELSE fn.file

Frame_line(f) ==
    LET fn == FuncForPC(Frame_pc(f))
    IN  IF fn.nil THEN 0 ELSE fn.line

\* Mutant: an unresolved pc yields the empty name.
Frame_nameEmpty(f) ==
    LET fn == FuncForPC(Frame_pc(f))
    IN  IF fn.nil THEN <<>> ELSE fn.name

Frame_name(f) ==
    LET fn == FuncForPC(Frame_pc(f))
    IN  IF fn.nil THEN Unknown ELSE fn.name

\* path.Base: "." for the empty path; trailing slashes dropped; the part
\* after the last slash; "/" when nothing but slashes was there.
RECURSIVE stripTrailingSlashes(_)
stripTrailingSlashes(str) ==
    IF Len(str) > 0 /\ At(str, Len(str) - 1) = "/"
    THEN stripTrailingSlashes(SubSeq(str, 1, Len(str) - 1))
    ELSE str

path_Base(str) ==
    IF str = <<>> THEN <<".">>
    ELSE LET p1 == stripTrailingSlashes(str)
             i == LastIndex(p1, "/")
             p2 == IF i >= 0 THEN SliceFrom(p1, i + 1) ELSE p1
         IN  IF p2 = <<>> THEN <<"/">> ELSE p2

Digits == <<"0", "1", "2", "3", "4", "5", "6", "7", "8", "9">>

\* strconv.Itoa: the decimal digits, most significant first, with a leading
\* '-' for a negative number.
RECURSIVE Itoa(_)
Itoa(n) ==
    IF n < 0 THEN <<"-">> \o Itoa(-n)
    ELSE IF n < 10 THEN <<At(Digits, n)>>
    ELSE Itoa(n \div 10) \o <<At(Digits, n % 10)>>

\* Mutant: %+s writes the normalised name, funcname(f.name()).
RECURSIVE Frame_FormatNormalised(_, _, _)
Frame_FormatNormalised(f, verb, plus) ==
    CASE verb = "s" ->
            IF plus
            THEN funcname(Frame_name(f)) \o <<"\n", "\t">> \o Frame_file(f)
            ELSE path_Base(Frame_file(f))
      [] verb = "d" -> Itoa(Frame_line(f))
      [] verb = "n" -> funcname(Frame_name(f))
      [] verb = "v" ->
            Frame_FormatNormalised(f, "s", plus) \o <<":">>
                \o Frame_FormatNormalised(f, "d", plus)
      [] OTHER -> <<>>

\* Frame.Format: what is written to the fmt.State for the verb, `plus`
\* being s.Flag('+').
RECURSIVE Frame_Format(_, _, _)
Frame_Format(f, verb, plus) ==
    CASE verb = "s" ->
            IF plus
            THEN Frame_name(f) \o <<"\n", "\t">> \o Frame_file(f)
            ELSE path_Base(Frame_file(f))
      [] verb = "d" -> Itoa(Frame_line(f))
      [] verb = "n" -> funcname(Frame_name(f))
      [] verb = "v" ->
            Frame_Format(f, "s", plus) \o <<":">> \o Frame_Format(f, "d", plus)
      [] OTHER -> <<>>

\* Frame.MarshalText: the text and the error returned.
Frame_MarshalText(f) ==
    LET nm == Frame_name(f)
    IN  IF nm = Unknown
        THEN [text |-> nm, err |-> "nil"]
        ELSE [text |-> nm \o <<" ">> \o Frame_file(f) \o <<":">> \o Itoa(Frame_line(f)),
              err |-> "nil"]

\* The loop of lines 130-135 from index i on, buf being what was written.
RECURSIVE formatSliceLoop(_, _, _, _, _)
formatSliceLoop(t, verb, plus, i, buf) ==
    IF i < Len(t)
    THEN formatSliceLoop(t, verb, plus, i + 1,
             (IF i > 0 THEN buf \o <<" ">> ELSE buf) \o Frame_Format(At(t, i), verb, plus))
    ELSE buf

\* Mutant: the separator is written after every frame, the last included.
RECURSIVE formatSliceLoopTrailing(_, _, _, _, _)
formatSliceLoopTrailing(t, verb, plus, i, buf) ==
    IF i < Len(t)
    THEN formatSliceLoopTrailing(t, verb, plus, i + 1,
             buf \o Frame_Format(At(t, i), verb, plus) \o <<" ">>)
    ELSE buf

formatSliceTrailing(t, verb, plus) ==
    formatSliceLoopTrailing(t, verb, plus, 0, <<"[">>) \o <<"]">>

formatSlice(t, verb, plus) ==
    formatSliceLoop(t, verb, plus, 0, <<"[">>) \o <<"]">>

\* The loop of lines 112-115 from index i on.
RECURSIVE verboseLoop(_, _, _, _)
verboseLoop(t, verb, i, buf) ==
    IF i < Len(t)
    THEN verboseLoop(t, verb, i + 1, buf \o <<"\n">> \o Frame_Format(At(t, i), verb, TRUE))
    ELSE buf

\* The type of the slice as %#v prints it: the package is named errors.
FrameSliceType ==
    <<"[", "]", "e", "r", "r", "o", "r", "s", ".", "F", "r", "a", "m", "e">>

\* The elements of a slice as fmt prints them for %#v, from index i on: ", "
\* between consecutive elements, each element written by its own Format
\* method with verb v; of the flags only '#' is set then, so Frame.Format
\* sees no '+'.
RECURSIVE goSyntaxLoop(_, _, _)
goSyntaxLoop(t, i, buf) ==
    IF i < Len(t)
    THEN goSyntaxLoop(t, i + 1,
             (IF i > 0 THEN buf \o <<",", " ">> ELSE buf) \o Frame_Format(At(t, i), "v", FALSE))
    ELSE buf

\* fmt.Fprintf(s, "%#v", []Frame(st)) of line 117: for the nil slice the
\* type and "(nil)"; for any other the type, "{", the elements and "}".
FprintfGoSyntax(t, isNil) ==
    IF isNil
    THEN FrameSliceType \o <<"(", "n", "i", "l", ")">>
    ELSE goSyntaxLoop(t, 0, FrameSliceType \o <<"{">>) \o <<"}">>

\* StackTrace.Format of the trace t (isNil: t is the nil slice), plus being
\* s.Flag('+') and sharp s.Flag('#'); '+' is tested first.
StackTrace_Format(t, isNil, verb, plus, sharp) ==
    CASE verb = "v" ->
            IF plus THEN verboseLoop(t, verb, 0, <<>>)
            ELSE IF sharp THEN FprintfGoSyntax(t, isNil)
            ELSE formatSlice(t, verb, plus)
      [] verb = "s" -> formatSlice(t, verb, plus)
      [] OTHER -> <<>>

\* The loop of lines 147-150 from index i on: fmt.Fprintf(st, "\n%+v", f)
\* writes "\n" and then f by Frame.Format with verb v and the '+' flag.
RECURSIVE stackFormatLoop(_, _, _)
stackFormatLoop(stk, i, buf) ==
    IF i < Len(stk)
    THEN stackFormatLoop(stk, i + 1,
             buf \o <<"\n">> \o Frame_Format(Frame(At(stk, i)), "v", TRUE))
    ELSE buf

\* (*stack).Format: writes only for verb v with the '+' flag.
stack_Format(stk, verb, plus) ==
    CASE verb = "v" -> IF plus THEN stackFormatLoop(stk, 0, <<>>) ELSE <<>>
      [] OTHER -> <<>>

FrameVerbs == {"s", "d", "n", "v", "x"}
TraceVerbs == {"s", "v", "x"}

InitFormat ==
    /\ pc = "ready"
    /\ st \in SeqsUpTo(Frames, MaxTrace)
    /\ stNil \in (IF st = <<>> THEN BOOLEAN ELSE {FALSE})
    /\ call = [op |-> "none"]
    /\ out = <<>>
    /\ err = "none"
    /\ IdleAncestor /\ IdleCallers /\ IdleTrace /\ IdleName

CallFrameFormat ==
    \E f \in Frames, verb \in FrameVerbs, plus \in BOOLEAN :
        /\ call' = [op |-> "Frame.Format", f |-> f, verb |-> verb, plus |-> plus]
        /\ out' = Frame_Format(f, verb, plus)
        /\ err' = "none"
        /\ pc' = "done"
        /\ UNCHANGED <<st, stNil>>
        /\ UNCHANGED <<ancestorVars, callersVars, traceVars, nameVars>>

CallMarshalText ==
    \E f \in Frames :
        /\ call' = [op |-> "Frame.MarshalText", f |-> f]
        /\ out' = Frame_MarshalText(f).text
        /\ err' = Frame_MarshalText(f).err
        /\ pc' = "done"
        /\ UNCHANGED <<st, stNil>>
        /\ UNCHANGED <<ancestorVars, callersVars, traceVars, nameVars>>

CallStackTraceFormat ==
    \E verb \in TraceVerbs, plus \in BOOLEAN, sharp \in BOOLEAN :
        /\ call' = [op |-> "StackTrace.Format", verb |-> verb, plus |-> plus,
                    sharp |-> sharp]
        /\ out' = StackTrace_Format(st, stNil, verb, plus, sharp)
        /\ err' = "none"
        /\ pc' = "done"
        /\ UNCHANGED <<st, stNil>>
        /\ UNCHANGED <<ancestorVars, callersVars, traceVars, nameVars>>

\* (*stack).Format on the stack that holds the addresses of st.
CallStackFormat ==
    \E verb \in TraceVerbs, plus \in BOOLEAN :
        /\ call' = [op |-> "stack.Format", verb |-> verb, plus |-> plus]
        /\ out' = stack_Format(st, verb, plus)
        /\ err' = "none"
        /\ pc' = "done"
        /\ UNCHANGED <<st, stNil>>
        /\ UNCHANGED <<ancestorVars, callersVars, traceVars, nameVars>>

NextFormat ==
    \/ CallFrameFormat
    \/ CallMarshalText
    \/ CallStackTraceFormat
    \/ CallStackFormat

SpecFormat == InitFormat /\ [][NextFormat]_vars

Resolvable(f) == (f - 1) \in DOMAIN SymTab

IsFrameFormat(verb, plus) ==
    call.op = "Frame.Format" /\ call.verb = verb /\ call.plus = plus

\* C7 as stated: Verbose formatting of a resolvable Frame writes the
\* NORMALISED function name, "\n\t", the full file path, ":" and the line.
C7_VerboseNormalisedName ==
    (IsFrameFormat("v", TRUE) /\ Resolvable(call.f)) =>
        out = funcname(SymTab[call.f - 1].name) \o <<"\n", "\t">>
                \o SymTab[call.f - 1].file \o <<":">> \o Itoa(SymTab[call.f - 1].line)

\* C7 as amended: Verbose formatting of a resolvable Frame writes the
\* function name as the symbol table gives it (fully qualified, not
\* normalised), "\n\t", the full file path, ":" and the decimal line.
C7_VerboseFullName ==
    (IsFrameFormat("v", TRUE) /\ Resolvable(call.f)) =>
        out = SymTab[call.f - 1].name \o <<"\n", "\t">>
                \o SymTab[call.f - 1].file \o <<":">> \o Itoa(SymTab[call.f - 1].line)

C7_Witness ==
    /\ IsFrameFormat("v", TRUE)
    /\ call.f = 1
    /\ out = <<"a", "/", "p", ".", "T", ".", "M", "\n", "\t",
               "/", "d", "/", "a", ".", "g", "o", ":", "1">>

\* The Compact rendering of one frame: base name of the file, ":", line.
CompactFrame(f) == path_Base(Frame_file(f)) \o <<":">> \o Itoa(Frame_line(f))

RECURSIVE JoinCompact(_)
JoinCompact(t) ==
    IF t = <<>> THEN <<>>
    ELSE IF Len(t) = 1 THEN CompactFrame(t[1])
    ELSE CompactFrame(t[1]) \o <<" ">> \o JoinCompact(Tail(t))

\* C8: Compact formatting of a StackTrace writes "[", the frames as
\* "<base name>:<line>" in trace order with one space between consecutive
\* frames and none at either end, and "]"; the empty trace gives "[]".
C8_CompactTrace ==
    (call.op = "StackTrace.Format" /\ call.verb = "v" /\ ~call.plus /\ ~call.sharp) =>
        /\ out = <<"[">> \o JoinCompact(st) \o <<"]">>
        /\ (st = <<>> => out = <<"[", "]">>)

C8_Witness ==
    /\ call.op = "StackTrace.Format" /\ call.verb = "v" /\ ~call.plus /\ ~call.sharp
    /\ st = <<1, 2>>
    /\ out = <<"[", "a", ".", "g", "o", ":", "1", " ",
               "b", ".", "g", "o", ":", "2", "]">>

\* C9: for an Address the symbol table does not resolve, the name is
\* "unknown" (%n, %+s), the file is "unknown" (%s, %+s), the line is 0 (%d),
\* Verbose formatting gives "unknown\n\tunknown:0", and MarshalText returns
\* "unknown" and a nil error.
C9_UnresolvedSentinels ==
    /\ (call.op = "Frame.Format" /\ ~Resolvable(call.f)) =>
          /\ (IsFrameFormat("n", FALSE) => out = Unknown)
          /\ (IsFrameFormat("s", FALSE) => out = Unknown)
          /\ (IsFrameFormat("d", FALSE) => out = <<"0">>)
          /\ (IsFrameFormat("s", TRUE) => out = Unknown \o <<"\n", "\t">> \o Unknown)
          /\ (IsFrameFormat("v", TRUE) =>
                 out = Unknown \o <<"\n", "\t">> \o Unknown \o <<":", "0">>)
    /\ (call.op = "Frame.MarshalText" /\ ~Resolvable(call.f)) =>
          (out = Unknown /\ err = "nil")

C9_Witness ==
    /\ IsFrameFormat("v", TRUE)
    /\ ~Resolvable(call.f)
    /\ out = <<"u", "n", "k", "n", "o", "w", "n", "\n", "\t",
               "u", "n", "k", "n", "o", "w", "n", ":", "0">>

====
